---- MODULE Spec2Model ----
(***************************************************************************)
(* A model of tools/bloggen/main.go: the blog generator that walks the     *)
(* articles folder, copies assets, and renders every markdown article in   *)
(* its own goroutine.                                                      *)
(*                                                                         *)
(* Strings are sequences of one-character strings, so that the string      *)
(* functions of the code (HasPrefix, Split, ToLower, Ext, time.Parse) are   *)
(* computed and not assumed.  A path is the sequence of its segments.      *)
(***************************************************************************)
EXTENDS Integers, Sequences, FiniteSets, TLC

(***************************************************************************)
(* Bounds of the model.                                                    *)
(***************************************************************************)
\* the source trees explored hold at most this many files
MaxFiles == 3
\* the file contents given to the image scan hold at most this many tokens
MaxTokens == 6

(***************************************************************************)
(* String functions.                                                       *)
(***************************************************************************)
Digits == {"0", "1", "2", "3", "4", "5", "6", "7", "8", "9"}

DigitVal(c) ==
  CASE c = "0" -> 0 [] c = "1" -> 1 [] c = "2" -> 2 [] c = "3" -> 3
    [] c = "4" -> 4 [] c = "5" -> 5 [] c = "6" -> 6 [] c = "7" -> 7
    [] c = "8" -> 8 [] c = "9" -> 9

DigitChar(n) ==
  CASE n = 0 -> "0" [] n = 1 -> "1" [] n = 2 -> "2" [] n = 3 -> "3"
    [] n = 4 -> "4" [] n = 5 -> "5" [] n = 6 -> "6" [] n = 7 -> "7"
    [] n = 8 -> "8" [] n = 9 -> "9"

\* strings.ToLower on the letters the model's names use
LowerChar(c) ==
  CASE c = "P" -> "p" [] c = "M" -> "m" [] c = "D" -> "d" [] c = "N" -> "n"
    [] OTHER -> c

ToLower(s) == [i \in 1..Len(s) |-> LowerChar(s[i])]

HasPrefix(s, p) == Len(s) >= Len(p) /\ SubSeq(s, 1, Len(p)) = p

HasSuffix(s, p) == Len(s) >= Len(p) /\ SubSeq(s, Len(s) - Len(p) + 1, Len(s)) = p

TrimSuffix(s, p) == IF HasSuffix(s, p) THEN SubSeq(s, 1, Len(s) - Len(p)) ELSE s

\* the least i with sep at position i of s, 0 when there is none
Index(s, sep) ==
  LET hits == {i \in 1..(Len(s) - Len(sep) + 1) : SubSeq(s, i, i + Len(sep) - 1) = sep}
  IN  IF hits = {} THEN 0 ELSE CHOOSE i \in hits : \A j \in hits : i <= j

\* strings.Split(s, sep) for a non-empty sep: the pieces between the
\* non-overlapping occurrences of sep, left to right
RECURSIVE Split(_, _)
Split(s, sep) ==
  LET i == Index(s, sep)
  IN  IF i = 0 THEN <<s>>
      ELSE <<SubSeq(s, 1, i - 1)>> \o Split(SubSeq(s, i + Len(sep), Len(s)), sep)

Space == {" ", "\t", "\r", "\n"}

RECURSIVE TrimLeft(_)
TrimLeft(s) == IF s # <<>> /\ s[1] \in Space THEN TrimLeft(Tail(s)) ELSE s

RECURSIVE TrimRight(_)
TrimRight(s) ==
  IF s # <<>> /\ s[Len(s)] \in Space THEN TrimRight(SubSeq(s, 1, Len(s) - 1)) ELSE s

TrimSpace(s) == TrimRight(TrimLeft(s))

\* bufio.Scanner with ScanLines: the lines of b, without their "\n" and a
\* trailing "\r"; no empty last line after a final "\n"
ScanLines(b) ==
  LET parts == Split(b, <<"\n">>)
      kept  == IF parts[Len(parts)] = <<>> THEN SubSeq(parts, 1, Len(parts) - 1) ELSE parts
  IN  [i \in 1..Len(kept) |-> TrimSuffix(kept[i], <<"\r">>)]

\* filepath.Ext: the suffix of the name from its last dot, "" without a dot
Ext(name) ==
  LET dots == {i \in 1..Len(name) : name[i] = "."}
  IN  IF dots = {} THEN <<>>
      ELSE SubSeq(name, CHOOSE i \in dots : \A j \in dots : j <= i, Len(name))

\* filepath.Base and filepath.Dir of a path given by its segments
Base(p) == p[Len(p)]

Dir(p) == SubSeq(p, 1, Len(p) - 1)

\* the characters of a path: its segments with the separator between them;
\* an empty segment list is the directory "."
RECURSIVE PathStr(_)
PathStr(p) ==
  IF p = <<>> THEN <<".">>
  ELSE IF Len(p) = 1 THEN p[1]
  ELSE p[1] \o <<"/">> \o PathStr(Tail(p))


(***************************************************************************)
(* time.Parse("01/2006", month + "/" + year) and Format("January 2006").    *)
(***************************************************************************)
MonthNames ==
  <<"January", "February", "March", "April", "May", "June", "July",
    "August", "September", "October", "November", "December">>

\* line 144: the value handed to time.Parse
DateValue(pathSegs) == pathSegs[2] \o <<"/">> \o pathSegs[1]

\* layout "01/2006": two digits naming a month 1..12, a slash, four digits of
\* year, and nothing after them
ParseOK(v) ==
  /\ Len(v) = 7
  /\ v[1] \in Digits /\ v[2] \in Digits
  /\ 10 * DigitVal(v[1]) + DigitVal(v[2]) \in 1..12
  /\ v[3] = "/"
  /\ \A i \in 4..7 : v[i] \in Digits

ParseMonth(v) == 10 * DigitVal(v[1]) + DigitVal(v[2])

ParseYear(v) ==
  1000 * DigitVal(v[4]) + 100 * DigitVal(v[5]) + 10 * DigitVal(v[6]) + DigitVal(v[7])

\* line 148: articleTime.Format("January 2006")
FormatTime(month, year) ==
  <<MonthNames[month], " ",
    DigitChar(year \div 1000), DigitChar((year \div 100) % 10),
    DigitChar((year \div 10) % 10), DigitChar(year % 10)>>

(***************************************************************************)
(* The hero image of an article: lines 155-167 of processMarkdownFile.     *)
(* path is the destination-relative path of the page, b the file's bytes.  *)
(* The result is the image URL, or a panic of the goroutine when line 161   *)
(* indexes past the end of what Split returned.                            *)
(***************************************************************************)
ImgStart == <<"!", "[">>

ImgMid == <<"]", "(">>

ImgEnd == <<")">>

SiteBase == <<"https://xbarapp.com/docs/">>

\* filepath.Join(dir, p) for a p without separators or dots: Join drops an
\* empty element and has nothing else to clean
JoinPath(dir, p) == IF p = <<>> THEN PathStr(dir) ELSE PathStr(dir) \o <<"/">> \o p

\* the scanned lines that start an image, by index
ImageLines(b) ==
  {i \in 1..Len(ScanLines(b)) : HasPrefix(TrimSpace(ScanLines(b)[i]), ImgStart)}

FirstImageLine(b) ==
  TrimSpace(ScanLines(b)[CHOOSE i \in ImageLines(b) : \A j \in ImageLines(b) : i <= j])

ImageScan(b, path) ==
  IF ImageLines(b) = {} THEN [panic |-> FALSE, url |-> <<>>]
  ELSE LET parts == Split(FirstImageLine(b), ImgMid)
       IN  IF Len(parts) < 2 THEN [panic |-> TRUE, url |-> <<>>]
           ELSE [panic |-> FALSE,
                 url   |-> SiteBase \o JoinPath(Dir(path), TrimSuffix(parts[2], ImgEnd))]


(***************************************************************************)
(* The source trees.  Entries lists every entry a tree may hold in the      *)
(* order filepath.Walk visits them (lexical within a directory, a          *)
(* directory before what it holds); rel is the path below the articles     *)
(* folder.  A tree is a set of the files; it holds the directories above    *)
(* them.                                                                   *)
(***************************************************************************)
n2023 == <<"2", "0", "2", "3">>

n04 == <<"0", "4">>

Entries ==
  << [rel |-> <<>>, isDir |-> TRUE, regular |-> FALSE, content |-> <<>>],
     [rel |-> << <<".", "h", ".", "m", "d">> >>, isDir |-> FALSE, regular |-> TRUE,
      content |-> <<"x">>],
     [rel |-> <<n2023>>, isDir |-> TRUE, regular |-> FALSE, content |-> <<>>],
     [rel |-> <<n2023, n04>>, isDir |-> TRUE, regular |-> FALSE, content |-> <<>>],
     [rel |-> <<n2023, n04, <<".", "k">> >>, isDir |-> FALSE, regular |-> TRUE,
      content |-> <<"k">>],
     [rel |-> <<n2023, n04, <<"P", ".", "m", "d">> >>, isDir |-> FALSE, regular |-> TRUE,
      content |-> <<"T", "\n", " ", "!", "[", "a", "]", "(", "i", ")", "\n">>],
     [rel |-> <<n2023, n04, <<"b", ".", "m", "d">> >>, isDir |-> FALSE, regular |-> TRUE,
      content |-> <<"!", "[", "a", "\n">>],
     [rel |-> <<n2023, n04, <<"i", ".", "p", "n", "g">> >>, isDir |-> FALSE, regular |-> TRUE,
      content |-> <<"g", "g">>],
     [rel |-> <<n2023, n04, <<"l", "n">> >>, isDir |-> FALSE, regular |-> FALSE,
      content |-> <<>>],
     [rel |-> <<n2023, n04, <<"p", ".", "h", "t", "m", "l">> >>, isDir |-> FALSE,
      regular |-> TRUE, content |-> <<"h">>],
     [rel |-> <<n2023, n04, <<"p", ".", "m", "d">> >>, isDir |-> FALSE, regular |-> TRUE,
      content |-> <<"T", "\n">>],
     [rel |-> <<n2023, <<"n", ".", "m", "d">> >>, isDir |-> FALSE, regular |-> TRUE,
      content |-> <<"N">>],
     [rel |-> << <<"p", ".", "m", "d">> >>, isDir |-> FALSE, regular |-> TRUE,
      content |-> <<"R">>] >>

FileIdx == {i \in 1..Len(Entries) : ~Entries[i].isDir}

\* lines 29-30: the two roots, each one opaque segment
sourceArticlesFolder == << <<"articles">> >>

destFolder == << <<"docs">> >>

\* line 35 and lines 118-128: the categories of categories.json, keyed by Path
CategoriesPayload == <<[Path |-> "a", Text |-> "A"], [Path |-> "b", Text |-> "B"]>>

CategoriesMap(payload) ==
  [p \in {payload[i].Path : i \in 1..Len(payload)} |->
     payload[CHOOSE i \in 1..Len(payload) :
               /\ payload[i].Path = p
               /\ \A j \in 1..Len(payload) : payload[j].Path = p => j <= i]]

VARIABLES
  tree,      \* the files of the articles folder (indices into Entries)
  pc,        \* where run is: "start", "walk", "launch", "returned", "panicked"
  exit,      \* the exit code of the process, -1 while it runs
  g,         \* the generator of line 46, NoGen before it is made
  walkPos,   \* the index in WalkList of the entry the walk visits next
  articles,  \* line 50: the map path -> rel, as a set of [path, rel]
  skipped,   \* the rels the walk function returned nil for at lines 56 and 59
  copyTried, \* the rels the walk function called copy for
  dst,       \* the destination tree: path -> bytes of the file at it
  handles,   \* the open output handles: [job, path]
  jobs,      \* the goroutines of line 83 by source path
  wg,        \* the WaitGroup's counter
  logged,    \* line 92: the [path, err] pairs printed to the log
  walkErr,   \* the error the walk ended with, "" when none
  crashed,   \* the goroutine that panicked and the line it did at, NoCrash when none
  scanB,     \* image scan alone: the bytes of the file
  scanPath,  \* image scan alone: the destination-relative path
  scanRes    \* image scan alone: the result, NoRes before the scan

vars ==
  <<tree, pc, exit, g, walkPos, articles, skipped, copyTried, dst, handles, jobs, wg,
    logged, walkErr, crashed, scanB, scanPath, scanRes>>

runVars ==
  <<tree, pc, exit, g, walkPos, articles, skipped, copyTried, dst, handles, jobs, wg,
    logged, walkErr, crashed>>

scanVars == <<scanB, scanPath, scanRes>>

NoGen == [made |-> FALSE]

NoRes == [done |-> FALSE]

NoCrash == [line |-> 0]

\* an entry is in the tree: a chosen file, or a directory above one
Present(e) ==
  IF e.isDir
    THEN \E i \in tree : HasPrefix(Entries[i].rel, e.rel)
    ELSE \E i \in tree : Entries[i] = e

\* what filepath.Walk visits, in order (the root is visited even when empty)
WalkList == SelectSeq(Entries, LAMBDA e : e.rel = <<>> \/ Present(e))


(***************************************************************************)
(* run, lines 45-98.                                                       *)
(***************************************************************************)
\* what a destination path holds: the bytes of a plain file, or the page a
\* template wrote, or nothing; all three of one shape
NoFile == [missing |-> TRUE, bytes |-> <<>>, page |-> <<>>]

PlainFile(bytes) == [missing |-> FALSE, bytes |-> bytes, page |-> <<>>]

PageFile(data) == [missing |-> FALSE, bytes |-> <<>>, page |-> <<data>>]

\* what is at a destination path, NoFile when nothing is there
FileAt(fs, path) == IF path \in DOMAIN fs THEN fs[path] ELSE NoFile

\* os.Create and the writes that follow: the file at path holds bytes
WriteFile(fs, path, file) ==
  [q \in DOMAIN fs \cup {path} |-> IF q = path THEN file ELSE fs[q]]

Init ==
  /\ tree \in {t \in SUBSET FileIdx : Cardinality(t) <= MaxFiles}
  /\ pc = "start"
  /\ exit = -1
  /\ g = NoGen
  /\ walkPos = 1
  /\ articles = {}
  /\ skipped = {}
  /\ copyTried = {}
  /\ dst = <<>>
  /\ handles = {}
  /\ jobs = <<>>
  /\ wg = 0
  /\ logged = {}
  /\ walkErr = ""
  /\ crashed = NoCrash
  /\ scanB = <<>>
  /\ scanPath = <<>>
  /\ scanRes = NoRes

\* lines 105-134: the ways newGenerator ends
GeneratorOutcomes == {"ok", "parse templates", "read categories.json", "json marshal"}

\* lines 46-49 (and main, lines 39-42, when run returns the error)
NewGenerator ==
  /\ pc = "start"
  /\ \E out \in GeneratorOutcomes :
       IF out = "ok"
         THEN /\ g' = [made |-> TRUE, categories |-> CategoriesMap(CategoriesPayload)]
              /\ pc' = "walk"
              /\ exit' = exit
         ELSE /\ g' = g
              /\ pc' = "returned"
              /\ exit' = 1
  /\ UNCHANGED <<tree, crashed, walkPos, articles, skipped, copyTried, dst, handles, jobs, wg,
                 logged, walkErr, scanVars>>

\* the path filepath.Walk hands to the walk function for an entry
EntryPath(e) == sourceArticlesFolder \o e.rel

\* line 61: filepath.Rel(base, path) for a path below base
Rel(base, path) == SubSeq(path, Len(base) + 1, Len(path))

\* Classify with the extension looked at before the dot: a dotfile ending in
\* .md would be recorded as an article
Classify_ExtFirst(e) ==
  IF e.isDir THEN "skip"
  ELSE IF Ext(Base(e.rel)) = <<".", "m", "d">> THEN "article"
  ELSE IF HasPrefix(Base(e.rel), <<".">>) THEN "skip"
  ELSE "asset"

\* lines 55-70: what the walk function does with an entry it was given
\* without an error
Classify(e) ==
  IF e.isDir THEN "skip"
  ELSE IF HasPrefix(Base(e.rel), <<".">>) THEN "skip"
  ELSE IF Ext(Base(e.rel)) = <<".", "m", "d">> THEN "article"
  ELSE "asset"

\* lines 214-237: the faults copy can meet, in the order it meets them
CopyFaults == {"none", "stat", "mkdir", "open", "create", "write"}

\* the error copy returns for an entry under a fault, "" when it returns nil
CopyErr(e, fault) ==
  IF fault = "stat" THEN "stat"
  ELSE IF ~e.regular THEN "not a regular file"
  ELSE IF fault = "none" THEN ""
  ELSE fault

\* the destination tree after copy(dest, path): untouched before os.Create
\* succeeds, the whole source after io.Copy, a strict prefix of it (n bytes)
\* when io.Copy fails
CopyWrites(fs, e, fault, n) ==
  LET dest == destFolder \o Rel(sourceArticlesFolder, EntryPath(e))
  IN  IF CopyErr(e, fault) \in {"", "write"}
        THEN WriteFile(fs, dest, PlainFile(IF fault = "write" THEN SubSeq(e.content, 1, n)
                                                               ELSE e.content))
        ELSE fs

\* AfterWalk with the walk's error dropped
AfterWalk_Ignored(err) == "walk"

\* line 77: run goes on to the goroutines only when the walk returned nil;
\* with an error it returns it, and main exits 1
AfterWalk(err) == IF err = "" THEN "walk" ELSE "returned"

\* lines 51-76: one call of the walk function
WalkStep ==
  /\ pc = "walk"
  /\ walkPos <= Len(WalkList)
  /\ LET e == WalkList[walkPos]
     IN  \/ \* lines 52-54: Walk hands the entry over with an error
            /\ walkErr' = "walk"
            /\ pc' = AfterWalk("walk")
            /\ exit' = 1
            /\ UNCHANGED <<walkPos, articles, skipped, copyTried, dst>>
         \/ /\ Classify(e) = "skip"
            /\ skipped' = skipped \cup {e.rel}
            /\ walkPos' = walkPos + 1
            /\ UNCHANGED <<pc, exit, articles, copyTried, dst, walkErr>>
         \/ /\ Classify(e) = "article"
            /\ articles' = articles \cup {[path |-> EntryPath(e),
                                           rel  |-> Rel(sourceArticlesFolder, EntryPath(e))]}
            /\ walkPos' = walkPos + 1
            /\ UNCHANGED <<pc, exit, skipped, copyTried, dst, walkErr>>
         \/ /\ Classify(e) = "asset"
            /\ copyTried' = copyTried \cup {e.rel}
            /\ \E fault \in CopyFaults, n \in 0..Len(e.content) :
                 /\ fault = "write" => n < Len(e.content)
                 /\ fault # "write" => n = 0
                 /\ dst' = CopyWrites(dst, e, fault, n)
                 /\ walkErr' = CopyErr(e, fault)
                 /\ pc' = AfterWalk(CopyErr(e, fault))
                 /\ exit' = IF AfterWalk(CopyErr(e, fault)) = "returned" THEN 1 ELSE exit
                 /\ walkPos' = IF AfterWalk(CopyErr(e, fault)) = "returned"
                                 THEN walkPos ELSE walkPos + 1
            /\ UNCHANGED <<articles, skipped>>
  /\ UNCHANGED <<tree, crashed, g, handles, jobs, wg, logged, scanVars>>

\* lines 77-80: the walk returned nil
WalkDone ==
  /\ pc = "walk"
  /\ walkPos > Len(WalkList)
  /\ pc' = "launch"
  /\ UNCHANGED <<tree, crashed, exit, g, walkPos, articles, skipped, copyTried, dst, handles, jobs,
                 wg, logged, walkErr, scanVars>>


(***************************************************************************)
(* The goroutines, lines 81-97, and processMarkdownFile, lines 136-210.     *)
(***************************************************************************)
\* DestName without the strings.ToLower of line 87
DestName_NoLower(path) ==
  SubSeq(Base(path), 1, Len(Base(path)) - 2) \o <<"h", "t", "m", "l">>

\* lines 86-87: the file name of the page
DestName(path) ==
  ToLower(SubSeq(Base(path), 1, Len(Base(path)) - 2) \o <<"h", "t", "m", "l">>)

\* line 89: the destination-relative path of the page; filepath.Join drops
\* the "." that filepath.Dir gives for a rel of one segment
DestFilename(path, rel) == Dir(rel) \o <<DestName(path)>>

\* line 88: where the page is written
Dest(path, rel) == destFolder \o Dir(rel) \o <<DestName(path)>>

\* lines 178-180: the title of the page
Title(src) ==
  LET name == SubSeq(Base(src), 1, Len(Base(src)) - Len(Ext(Base(src))))
  IN  [i \in 1..Len(name) |-> IF name[i] = "-" THEN " " ELSE name[i]]

\* line 154: the first line of the file
FirstLine(bytes) == Split(bytes, <<"\n">>)[1]

\* the bytes of the source file at path
SourceBytes(path) ==
  (CHOOSE e \in {Entries[i] : i \in tree} : EntryPath(e) = path).content

\* lines 181-204: the page data; the version and the wall-clock time are left
\* out, and the HTML is the markdown it was made from
PageData(path, src, job) ==
  [Categories     |-> g.categories,
   Path           |-> path,
   ArticleTimeStr |-> job.time,
   Title          |-> Title(src),
   Desc           |-> job.desc,
   ImageURL       |-> job.image,
   HTML           |-> SourceBytes(src)]

\* CanLaunch with the goroutines started from inside the walk
CanLaunch_DuringWalk == pc \in {"walk", "launch"}

\* lines 81-83: the goroutines start after the walk, one per article
CanLaunch == pc = "launch"

\* lines 81-83: wg.Add(1) and go func for one entry of the map
Launch ==
  /\ CanLaunch
  /\ \E a \in articles :
       /\ a.path \notin DOMAIN jobs
       /\ jobs' = [q \in DOMAIN jobs \cup {a.path} |->
                     IF q = a.path
                       THEN [pc |-> "start", rel |-> a.rel, err |-> "", time |-> <<>>,
                             desc |-> <<>>, image |-> <<>>, created |-> FALSE]
                       ELSE jobs[q]]
       /\ wg' = wg + 1
  /\ UNCHANGED <<tree, crashed, pc, exit, g, walkPos, articles, skipped, copyTried, dst, handles,
                 logged, walkErr, scanVars>>

\* Finished without the log.Printf of line 92
Finished_Unlogged(path, err) ==
  /\ jobs' = [jobs EXCEPT ![path].pc = "done", ![path].err = err]
  /\ logged' = logged
  /\ wg' = wg - 1

\* lines 84 and 91-93: the goroutine logs the error it got, if any, and
\* wg.Done runs
Finished(path, err) ==
  /\ jobs' = [jobs EXCEPT ![path].pc = "done", ![path].err = err]
  /\ logged' = IF err = "" THEN logged ELSE logged \cup {[path |-> path, err |-> err]}
  /\ wg' = wg - 1

\* a panic in a goroutine ends the process with exit code 2
Panicked(path, line) ==
  /\ pc' = "panicked"
  /\ exit' = 2
  /\ crashed' = [line |-> line, path |-> path]

\* line 141: pathSegs[1] is an index out of range for a path of one segment
ParsePanics(pathSegs) == Len(pathSegs) < 2

\* lines 85-90 and 137-148: the path of the page and its date
JobParse ==
  /\ pc = "launch"
  /\ \E path \in DOMAIN jobs :
       /\ jobs[path].pc = "start"
       /\ LET pathSegs == DestFilename(path, jobs[path].rel)
          IN  IF ParsePanics(pathSegs)
                THEN /\ Panicked(path, 141)
                     /\ UNCHANGED <<jobs, logged, wg>>
                ELSE /\ UNCHANGED <<pc, exit, crashed>>
                     /\ IF ParseOK(DateValue(pathSegs))
                          THEN /\ jobs' = [jobs EXCEPT
                                     ![path].pc = "parsed",
                                     ![path].time =
                                        FormatTime(ParseMonth(DateValue(pathSegs)),
                                                   ParseYear(DateValue(pathSegs)))]
                               /\ UNCHANGED <<logged, wg>>
                          ELSE Finished(path, "parse time from path")
  /\ UNCHANGED <<tree, g, walkPos, articles, skipped, copyTried, dst, handles, walkErr,
                 scanVars>>

\* lines 150-168: the file is read and scanned for its image
JobRead ==
  /\ pc = "launch"
  /\ \E path \in DOMAIN jobs :
       /\ jobs[path].pc = "parsed"
       /\ \/ \* lines 151-153: os.ReadFile fails
             /\ Finished(path, "read")
             /\ UNCHANGED <<pc, exit, crashed>>
          \/ LET scan == ImageScan(SourceBytes(path), DestFilename(path, jobs[path].rel))
             IN  IF scan.panic
                   THEN /\ Panicked(path, 161)
                        /\ UNCHANGED <<jobs, logged, wg>>
                   ELSE /\ jobs' = [jobs EXCEPT
                              ![path].pc = "read",
                              ![path].desc = FirstLine(SourceBytes(path)),
                              ![path].image = scan.url]
                        /\ UNCHANGED <<pc, exit, crashed, logged, wg>>
  /\ UNCHANGED <<tree, g, walkPos, articles, skipped, copyTried, dst, handles, walkErr,
                 scanVars>>

\* lines 169-177: the directory is made and the page created, empty
JobCreate ==
  /\ pc = "launch"
  /\ \E path \in DOMAIN jobs :
       /\ jobs[path].pc = "read"
       /\ \/ \E err \in {"mkdir", "create dest"} :
               /\ Finished(path, err)
               /\ UNCHANGED <<dst, handles>>
          \/ /\ dst' = WriteFile(dst, Dest(path, jobs[path].rel), PlainFile(<<>>))
             /\ handles' = handles \cup {[job |-> path, path |-> Dest(path, jobs[path].rel)]}
             /\ jobs' = [jobs EXCEPT ![path].pc = "created", ![path].created = TRUE]
             /\ UNCHANGED <<logged, wg>>
  /\ UNCHANGED <<tree, crashed, pc, exit, g, walkPos, articles, skipped, copyTried, walkErr,
                 scanVars>>

\* lines 178-209 and the deferred f.Close: the template is executed into the
\* page; when it fails the page keeps what was written so far
JobRender ==
  /\ pc = "launch"
  /\ \E path \in DOMAIN jobs :
       /\ jobs[path].pc = "created"
       /\ LET dest == Dest(path, jobs[path].rel)
              page == PageData(DestFilename(path, jobs[path].rel), path, jobs[path])
          IN  \/ /\ dst' = WriteFile(dst, dest, PageFile(page))
                 /\ Finished(path, "")
              \/ /\ \E wrote \in BOOLEAN :
                      dst' = IF wrote THEN WriteFile(dst, dest, PlainFile(<<"(part of a page)">>))
                                      ELSE dst
                 /\ Finished(path, "render")
       /\ handles' = handles \ {[job |-> path, path |-> Dest(path, jobs[path].rel)]}
  /\ UNCHANGED <<tree, crashed, pc, exit, g, walkPos, articles, skipped, copyTried, walkErr,
                 scanVars>>

\* lines 96-97: wg.Wait returns once every goroutine is done, and run
\* returns nil
Return ==
  /\ pc = "launch"
  /\ \A a \in articles : a.path \in DOMAIN jobs
  /\ wg = 0
  /\ pc' = "returned"
  /\ exit' = 0
  /\ UNCHANGED <<tree, crashed, g, walkPos, articles, skipped, copyTried, dst, handles, jobs, wg,
                 logged, walkErr, scanVars>>

Next ==
  \/ NewGenerator
  \/ WalkStep
  \/ WalkDone
  \/ Launch
  \/ JobParse
  \/ JobRead
  \/ JobCreate
  \/ JobRender
  \/ Return

Spec == Init /\ [][Next]_vars


(***************************************************************************)
(* The image scan alone, over every small file: the run stands still and   *)
(* one step applies lines 155-167 to the bytes chosen at the start.        *)
(***************************************************************************)
ScanTokens == {ImgStart, ImgMid, ImgEnd, <<"a">>, <<" ">>, <<"\n">>}

RECURSIVE Flatten(_)
Flatten(ss) == IF ss = <<>> THEN <<>> ELSE Head(ss) \o Flatten(Tail(ss))

\* the files of at most MaxTokens tokens
ScanFiles == {Flatten(ts) : ts \in UNION {[1..n -> ScanTokens] : n \in 0..MaxTokens}}

ScanPaths == {<<n2023, n04, <<"p", ".", "h", "t", "m", "l">> >>,
              <<n2023, <<"n", ".", "h", "t", "m", "l">> >>}

InitScan ==
  /\ tree = {}
  /\ pc = "scan"
  /\ exit = -1
  /\ g = NoGen
  /\ walkPos = 1
  /\ articles = {}
  /\ skipped = {}
  /\ copyTried = {}
  /\ dst = <<>>
  /\ handles = {}
  /\ jobs = <<>>
  /\ wg = 0
  /\ logged = {}
  /\ walkErr = ""
  /\ crashed = NoCrash
  /\ scanB \in ScanFiles
  /\ scanPath \in ScanPaths
  /\ scanRes = NoRes

Scan ==
  /\ pc = "scan"
  /\ ~scanRes.done
  /\ scanRes' = [done  |-> TRUE,
                 panic |-> ImageScan(scanB, scanPath).panic,
                 url   |-> ImageScan(scanB, scanPath).url]
  /\ UNCHANGED <<runVars, scanB, scanPath>>

NextScan == Scan

SpecImage == InitScan /\ [][NextScan]_vars


(***************************************************************************)
(* What the properties below speak of.                                     *)
(***************************************************************************)
MdExt == <<".", "m", "d">>

IsDotName(rel) == Base(rel)[1] = "."

AllDigits(seg) == \A i \in 1..Len(seg) : seg[i] \in Digits

\* the files of the tree
TreeFiles == {Entries[i] : i \in tree}

\* the markdown files and the assets of the tree, dotfiles apart
TreeArticles == {e \in TreeFiles : ~IsDotName(e.rel) /\ Ext(Base(e.rel)) = MdExt}

TreeAssets == {e \in TreeFiles : ~IsDotName(e.rel) /\ Ext(Base(e.rel)) # MdExt}

\* the mirrored path of a markdown file: same directory, the name with html
\* for md, in lower case
MirroredHtml(rel) ==
  destFolder \o Dir(rel)
    \o <<ToLower(SubSeq(Base(rel), 1, Len(Base(rel)) - Len(MdExt)) \o <<".", "h", "t", "m", "l">>)>>

\* a destination-relative path that does not start with a year and a month
Malformed(rel) == Len(rel) < 2 \/ ~AllDigits(rel[1]) \/ ~AllDigits(rel[2])

ArticleRels == {a.rel : a \in articles}

JobOf(rel) == jobs[sourceArticlesFolder \o rel]

Launched(rel) == (sourceArticlesFolder \o rel) \in DOMAIN jobs

CopyErrors == {"stat", "not a regular file", "mkdir", "open", "create", "write"}


(***************************************************************************)
(* C3: no render job exists before newGenerator has made the generator and *)
(* the walk has visited every entry and copied every asset; and the walk   *)
(* itself does nothing before the generator is made.                       *)
(***************************************************************************)
C3_RenderAfterLoadAndWalk ==
  /\ DOMAIN jobs # {} =>
       /\ g.made
       /\ walkPos > Len(WalkList)
       /\ walkErr = ""
       /\ \A e \in TreeAssets : e.rel \in copyTried /\ (destFolder \o e.rel) \in DOMAIN dst
       /\ \A e \in TreeArticles : e.rel \in ArticleRels
  /\ (walkPos > 1 \/ walkErr # "" \/ skipped # {} \/ articles # {} \/ copyTried # {}) => g.made

C3_Witness ==
  /\ \E path \in DOMAIN jobs : jobs[path].pc = "created"
  /\ copyTried # {}

(***************************************************************************)
(* C7: every entry the walk function has handled is in exactly one of       *)
(* skipped (a directory or a dot name), the articles (extension .md) and   *)
(* the copied (all else); no dot name is recorded or copied, and no .md    *)
(* file is copied into the destination tree.                               *)
(***************************************************************************)
C7_WalkClassifies ==
  /\ \A k \in 1..(walkPos - 1) :
       LET e == WalkList[k]
       IN  /\ Cardinality({c \in {"skipped", "article", "asset"} :
                             \/ c = "skipped" /\ e.rel \in skipped
                             \/ c = "article" /\ e.rel \in ArticleRels
                             \/ c = "asset" /\ e.rel \in copyTried}) = 1
           /\ e.rel \in skipped <=> (e.isDir \/ IsDotName(e.rel))
           /\ e.rel \in ArticleRels <=> (~e.isDir /\ ~IsDotName(e.rel) /\ Ext(Base(e.rel)) = MdExt)
  /\ \A a \in articles : a.path = sourceArticlesFolder \o a.rel
  /\ \A rel \in ArticleRels \cup copyTried : ~IsDotName(rel)
  /\ \A rel \in copyTried : Ext(Base(rel)) # MdExt
  /\ \A e \in TreeFiles :
       (IsDotName(e.rel) \/ Ext(Base(e.rel)) = MdExt) => (destFolder \o e.rel) \notin DOMAIN dst

C7_Witness ==
  /\ walkPos > Len(WalkList)
  /\ \E rel \in skipped : rel # <<>> /\ IsDotName(rel)
  /\ articles # {}
  /\ copyTried # {}

(***************************************************************************)
(* C8: when a copy fails, the walk stops at that entry, run returns the    *)
(* error (exit code 1) and no goroutine is ever started, whatever articles *)
(* the walk had already recorded.                                          *)
(***************************************************************************)
C8_CopyFailureAborts ==
  walkErr \in CopyErrors =>
    /\ pc = "returned"
    /\ exit = 1
    /\ DOMAIN jobs = {}
    /\ wg = 0
    /\ walkPos <= Len(WalkList)
    /\ WalkList[walkPos].rel \in copyTried
    /\ \A k \in (walkPos + 1)..Len(WalkList) :
         WalkList[k].rel \notin skipped \cup ArticleRels \cup copyTried

C8_Witness ==
  /\ walkErr \in CopyErrors
  /\ articles # {}
  /\ walkPos < Len(WalkList)


(***************************************************************************)
(* C1: the goroutine of an article with a malformed path (fewer than two   *)
(* segments, or a year or month that is no number) does not panic: it ends *)
(* with the parse error logged, and once run has returned every article    *)
(* with a well-formed path has had its goroutine run to its end.           *)
(***************************************************************************)
C1_MalformedPathSkipped ==
  \A a \in articles :
    Malformed(a.rel) =>
      /\ crashed = NoCrash \/ crashed.path # a.path
      /\ (a.path \in DOMAIN jobs /\ jobs[a.path].pc # "start") =>
           /\ jobs[a.path].pc = "done"
           /\ jobs[a.path].err = "parse time from path"
           /\ [path |-> a.path, err |-> "parse time from path"] \in logged
           /\ ~jobs[a.path].created
      /\ pc = "returned" =>
           \A s \in articles :
             ~Malformed(s.rel) =>
               /\ s.path \in DOMAIN jobs
               /\ jobs[s.path].pc = "done"
               /\ jobs[s.path].err = "" => Dest(s.path, s.rel) \in DOMAIN dst

(***************************************************************************)
(* C2: no two goroutines hold an open output handle on the same            *)
(* destination file.                                                       *)
(***************************************************************************)
C2_NoSharedDestination ==
  \A h1, h2 \in handles : h1.path = h2.path => h1.job = h2.job

(***************************************************************************)
(* C4: once the generator is made and the walk has returned nil, run        *)
(* returns only after one goroutine per article was started and has        *)
(* finished, and then with exit code 0; the process ends with another exit *)
(* code only when newGenerator or the walk failed.                         *)
(***************************************************************************)
C4_ExitCode ==
  /\ (pc = "returned" /\ g.made /\ walkErr = "") =>
       /\ exit = 0
       /\ DOMAIN jobs = {a.path : a \in articles}
       /\ \A path \in DOMAIN jobs : jobs[path].pc = "done"
  /\ exit \notin {-1, 0} => (~g.made \/ walkErr # "")

(***************************************************************************)
(* C6: when run has returned nil, the file at the mirrored path of every   *)
(* asset (a file that is no markdown file and no dotfile) holds the bytes  *)
(* of the asset.                                                           *)
(***************************************************************************)
C6_AssetsIdentical ==
  (pc = "returned" /\ exit = 0) =>
    \A e \in TreeAssets : FileAt(dst, destFolder \o e.rel) = PlainFile(e.content)


(***************************************************************************)
(* C5, as claimed: when run has returned nil, an .html file exists at the  *)
(* mirrored, lower-cased path of every markdown file that is no dotfile.   *)
(***************************************************************************)
C5_EveryArticleHasPage ==
  (pc = "returned" /\ exit = 0) =>
    \A e \in TreeArticles : MirroredHtml(e.rel) \in DOMAIN dst

\* the errors processMarkdownFile returns before it has created the page
ErrorsBeforeCreate == {"parse time from path", "read", "mkdir", "create dest"}

(***************************************************************************)
(* C5, amended: when run has returned nil, every markdown file that is no  *)
(* dotfile has had its goroutine run to its end, and unless that ended     *)
(* with an error from before the page was created (date parse, read,       *)
(* mkdir, create), an .html file exists at the mirrored, lower-cased path. *)
(***************************************************************************)
C5_RenderedArticleHasPage ==
  (pc = "returned" /\ exit = 0) =>
    \A e \in TreeArticles :
      /\ Launched(e.rel)
      /\ JobOf(e.rel).pc = "done"
      /\ JobOf(e.rel).err \notin ErrorsBeforeCreate => MirroredHtml(e.rel) \in DOMAIN dst

C5_Witness ==
  /\ pc = "returned"
  /\ exit = 0
  /\ \E e \in TreeArticles :
       /\ Base(e.rel) # ToLower(Base(e.rel))
       /\ JobOf(e.rel).err = ""
       /\ MirroredHtml(e.rel) \in DOMAIN dst
  /\ \E e \in TreeArticles : JobOf(e.rel).err \in ErrorsBeforeCreate

\* the errors the claim calls per-article errors
PerArticleErrors == {"parse time from path", "read", "render"}

(***************************************************************************)
(* C9, as claimed: a goroutine that ended with a date-parse, read or       *)
(* render error has its error logged with the source path and has created  *)
(* no destination file, and run, when it returns, returns nil.             *)
(***************************************************************************)
C9_FailedArticleOmitted ==
  \A path \in DOMAIN jobs :
    (jobs[path].pc = "done" /\ jobs[path].err \in PerArticleErrors) =>
      /\ [path |-> path, err |-> jobs[path].err] \in logged
      /\ ~jobs[path].created
      /\ pc = "returned" => exit = 0

(***************************************************************************)
(* C9, amended: a goroutine that ended with a date-parse, read or render   *)
(* error has its error logged with the source path, and run, when it       *)
(* returns, returns nil; after a date-parse or read error the goroutine    *)
(* has created no destination file, after a render error the file it       *)
(* created is still there.                                                 *)
(***************************************************************************)
C9_FailedArticleLogged ==
  \A path \in DOMAIN jobs :
    (jobs[path].pc = "done" /\ jobs[path].err \in PerArticleErrors) =>
      /\ [path |-> path, err |-> jobs[path].err] \in logged
      /\ jobs[path].err \in {"parse time from path", "read"} => ~jobs[path].created
      /\ jobs[path].err = "render" =>
           /\ jobs[path].created
           /\ Dest(path, jobs[path].rel) \in DOMAIN dst
      /\ pc = "returned" => exit = 0

C9_Witness ==
  /\ pc = "returned"
  /\ \E path \in DOMAIN jobs : jobs[path].err = "render"
  /\ \E path \in DOMAIN jobs : jobs[path].err = "parse time from path"
  /\ \E path \in DOMAIN jobs : jobs[path].err = "read"

(***************************************************************************)
(* C10: the image URL of a file is empty when no trimmed line starts with  *)
(* "![", and else the site base followed by the destination directory      *)
(* joined with the text between the first "](" of the first such line and  *)
(* the next ")"; the scan never panics.                                    *)
(***************************************************************************)
\* the text of a line between its first "](" and the next ")"
BetweenParens(line) ==
  LET rest == SubSeq(line, Index(line, ImgMid) + Len(ImgMid), Len(line))
  IN  SubSeq(rest, 1, Index(rest, ImgEnd) - 1)

\* the line has a "](" and a ")" after it
HasTarget(line) ==
  /\ Index(line, ImgMid) > 0
  /\ Index(SubSeq(line, Index(line, ImgMid) + Len(ImgMid), Len(line)), ImgEnd) > 0

C10_ImageUrl ==
  scanRes.done =>
    /\ ~scanRes.panic
    /\ ImageLines(scanB) = {} => scanRes.url = <<>>
    /\ (ImageLines(scanB) # {} /\ HasTarget(FirstImageLine(scanB))) =>
         scanRes.url = SiteBase \o JoinPath(Dir(scanPath), BetweenParens(FirstImageLine(scanB)))

====
